---- MODULE Spec2Model ----
(***************************************************************************)
(* A model of raspare: the prefix-notation evaluator (src/eval.rs), the    *)
(* run loop (src/main.rs) and the raster image engine it drives            *)
(* (src/image.rs, src/image/blend.rs, src/image/effect.rs).                *)
(***************************************************************************)
EXTENDS Integers, Sequences, FiniteSets, TLC

(***************************************************************************)
(* IEEE-754 binary32 arithmetic (Rust f32), for the non-negative finite    *)
(* values the blend engine computes.  A value is <<m, e>> standing for     *)
(* m * 2^e, with either m = 0 (and e = 0) or 2^23 <= m < 2^24.  Every      *)
(* operation rounds to nearest, ties to even, as the hardware does.        *)
(* Products are formed from 12-bit limbs so that no intermediate exceeds   *)
(* 31 bits.  Subnormals, infinities and NaN do not arise for operands      *)
(* derived from 8-bit channels and are not represented.                    *)
(***************************************************************************)
F32Zero == <<0, 0>>

RECURSIVE BitLen(_)
BitLen(n) == IF n = 0 THEN 0 ELSE 1 + BitLen(n \div 2)

\* The binary32 nearest to (M + f) * 2^e, where 0 <= f < 1 and f > 0 iff sticky.
F32Round(M, e, sticky) ==
    IF M = 0 THEN F32Zero
    ELSE LET len == BitLen(M) IN
         IF len <= 24 THEN <<M * 2^(24 - len), e - (24 - len)>>
         ELSE LET k    == len - 24
                  q    == M \div 2^k
                  r    == M % 2^k
                  half == 2^(k - 1)
                  up   == \/ r > half
                          \/ r = half /\ (sticky \/ q % 2 = 1)
                  q2   == IF up THEN q + 1 ELSE q
              IN  IF q2 = 2^24 THEN <<2^23, e + k + 1>> ELSE <<q2, e + k>>

\* c as f32 for an 8-bit channel (exact).
F32FromInt(c) == F32Round(c, 0, FALSE)

F32One == F32FromInt(1)

F32Less(a, b) ==
    IF a[1] = 0 THEN b[1] # 0
    ELSE IF b[1] = 0 THEN FALSE
    ELSE a[2] < b[2] \/ (a[2] = b[2] /\ a[1] < b[1])

F32AddOrdered(a, b) ==
    \* a >= b > 0
    LET d      == a[2] - b[2]
        M1     == a[1] * 8
        M2     == IF d >= 27 THEN 0 ELSE (b[1] * 8) \div 2^d
        sticky == IF d >= 27 THEN TRUE ELSE (b[1] * 8) % 2^d # 0
    IN  F32Round(M1 + M2, a[2] - 3, sticky)

F32Add(a, b) ==
    IF a[1] = 0 THEN b
    ELSE IF b[1] = 0 THEN a
    ELSE IF F32Less(a, b) THEN F32AddOrdered(b, a) ELSE F32AddOrdered(a, b)

\* a - b for a >= b (the only subtractions the blend engine performs).
F32Sub(a, b) ==
    IF b[1] = 0 THEN a
    ELSE IF a = b THEN F32Zero
    ELSE IF F32Less(a, b) THEN CHOOSE x \in {} : TRUE
    ELSE LET d      == a[2] - b[2]
             M1     == a[1] * 8
             M2     == IF d >= 27 THEN 0 ELSE (b[1] * 8) \div 2^d
             sticky == IF d >= 27 THEN TRUE ELSE (b[1] * 8) % 2^d # 0
         IN  IF sticky THEN F32Round(M1 - M2 - 1, a[2] - 3, TRUE)
             ELSE F32Round(M1 - M2, a[2] - 3, FALSE)

F32Mul(a, b) ==
    IF a[1] = 0 \/ b[1] = 0 THEN F32Zero
    ELSE LET h1  == a[1] \div 4096
             l1  == a[1] % 4096
             h2  == b[1] \div 4096
             l2  == b[1] % 4096
             mid == h1 * l2 + l1 * h2
             low == (mid % 4096) * 4096 + l1 * l2
             Plo == low % 2^24
             Phi == h1 * h2 + mid \div 4096 + low \div 2^24
             e   == a[2] + b[2]
         IN  IF Phi >= 2^23
             THEN LET up == \/ Plo > 2^23
                            \/ Plo = 2^23 /\ Phi % 2 = 1
                      q  == IF up THEN Phi + 1 ELSE Phi
                  IN  IF q = 2^24 THEN <<2^23, e + 25>> ELSE <<q, e + 24>>
             ELSE LET q0 == Phi * 2 + Plo \div 2^23
                      r  == Plo % 2^23
                      up == \/ r > 2^22
                            \/ r = 2^22 /\ q0 % 2 = 1
                      q  == IF up THEN q0 + 1 ELSE q0
                  IN  IF q = 2^24 THEN <<2^23, e + 24>> ELSE <<q, e + 23>>

\* a / b for b > 0: 28 quotient bits by four 7-bit long-division steps.
F32Div(a, b) ==
    IF a[1] = 0 THEN F32Zero
    ELSE LET q1 == (a[1] * 128) \div b[1]
             r1 == (a[1] * 128) % b[1]
             q2 == (r1 * 128) \div b[1]
             r2 == (r1 * 128) % b[1]
             q3 == (r2 * 128) \div b[1]
             r3 == (r2 * 128) % b[1]
             q4 == (r3 * 128) \div b[1]
             r4 == (r3 * 128) % b[1]
             Q  == ((q1 * 128 + q2) * 128 + q3) * 128 + q4
         IN  F32Round(Q, a[2] - b[2] - 28, r4 # 0)

\* x as u8: truncation toward zero, saturating at 255.
F32ToU8(a) ==
    IF a[1] = 0 THEN 0
    ELSE IF a[2] >= 0 THEN 255
    ELSE IF 0 - a[2] > 24 THEN 0
    ELSE LET v == a[1] \div 2^(0 - a[2]) IN IF v > 255 THEN 255 ELSE v

(***************************************************************************)
(* Blend engine.  A pixel is <<r, g, b, a>> of 8-bit channels.             *)
(***************************************************************************)
BlendModes == {"Normal", "Multiply", "Screen", "Overlay"}

F32Half == <<2^23, 0 - 24>>

F32Two == F32FromInt(2)

F32_255 == F32FromInt(255)

\* One premultiplied colour channel combined by mode (b = bottom, t = top).
blend_channel(mode, b, t, top_alpha) ==
    CASE mode = "Normal"   -> F32Add(t, F32Mul(b, F32Sub(F32One, top_alpha)))
      [] mode = "Multiply" -> F32Mul(t, b)
      [] mode = "Screen"   -> F32Sub(F32One, F32Mul(F32Sub(F32One, t), F32Sub(F32One, b)))
      [] mode = "Overlay"  ->
            IF F32Less(t, F32Half)
            THEN F32Mul(F32Mul(F32Two, b), t)
            ELSE F32Sub(F32One, F32Mul(F32Mul(F32Two, F32Sub(F32One, b)), F32Sub(F32One, t)))

\* The arithmetic both copies of blend_pixel share: normalise, over-alpha,
\* premultiply, combine, un-premultiply, truncate.
blend_arith(mode, top, bottom) ==
    LET topf32      == [i \in 1..4 |-> F32Div(F32FromInt(top[i]), F32_255)]
        bottomf32   == [i \in 1..4 |-> F32Div(F32FromInt(bottom[i]), F32_255)]
        alpha_final == F32Sub(F32Add(bottomf32[4], topf32[4]),
                              F32Mul(bottomf32[4], topf32[4]))
        top_pm      == [i \in 1..3 |-> F32Mul(topf32[i], topf32[4])]
        bottom_pm   == [i \in 1..3 |-> F32Mul(bottomf32[i], bottomf32[4])]
        mixed       == [i \in 1..3 |-> blend_channel(mode, bottom_pm[i], top_pm[i], topf32[4])]
    IN  IF alpha_final = F32Zero THEN <<0, 0, 0, 0>>
        ELSE << F32ToU8(F32Mul(F32Div(mixed[1], alpha_final), F32_255)),
                F32ToU8(F32Mul(F32Div(mixed[2], alpha_final), F32_255)),
                F32ToU8(F32Mul(F32Div(mixed[3], alpha_final), F32_255)),
                F32ToU8(F32Mul(alpha_final, F32_255)) >>

\* BlendMode::blend_pixel of src/image/blend.rs, the one eval.rs imports.
blend_pixel(mode, top, bottom) ==
    IF top[4] = 0 THEN bottom ELSE blend_arith(mode, top, bottom)

\* BlendMode::blend_pixel of src/image.rs: the same arithmetic with no
\* short-circuit on a transparent top.
blend_pixel_image_rs(mode, top, bottom) == blend_arith(mode, top, bottom)

(***************************************************************************)
(* Numbers.  The evaluator's Number is an f64; the model keeps a number as *)
(* a reduced fraction <<n, d>>, d > 0, which is what f64 arithmetic        *)
(* computes exactly for the small dyadic operands the scripts below use.   *)
(***************************************************************************)
Abs(i) == IF i < 0 THEN 0 - i ELSE i

Min(i, j) == IF i < j THEN i ELSE j

RECURSIVE Gcd(_, _)
Gcd(i, j) == IF j = 0 THEN i ELSE Gcd(j, i % j)

Rat(n, d) ==
    LET g == Gcd(Abs(n), Abs(d))
        s == IF d < 0 THEN 0 - 1 ELSE 1
    IN  <<(s * n) \div g, (s * d) \div g>>

RatInt(i) == <<i, 1>>

RatAdd(a, b) == Rat(a[1] * b[2] + b[1] * a[2], a[2] * b[2])

RatSub(a, b) == Rat(a[1] * b[2] - b[1] * a[2], a[2] * b[2])

RatMul(a, b) == Rat(a[1] * b[1], a[2] * b[2])

RatDiv(a, b) == Rat(a[1] * b[2], a[2] * b[1])

\* f64::trunc: the integer part, toward zero.
Trunc(a) == IF a[1] >= 0 THEN a[1] \div a[2] ELSE 0 - ((0 - a[1]) \div a[2])

\* Rust's % on f64 (fmod): the remainder has the sign of the dividend.
RatRem(a, b) == RatSub(a, RatMul(b, RatInt(Trunc(RatDiv(a, b)))))

\* f64::round: to nearest, halves away from zero.
Round(a) ==
    IF a[1] >= 0 THEN (2 * a[1] + a[2]) \div (2 * a[2])
    ELSE 0 - ((2 * (0 - a[1]) + a[2]) \div (2 * a[2]))

\* AsUsize with the cast applied to the rounded value.
AsUsize_rounding(a) == IF a[1] < 0 THEN 0 ELSE Round(a)

\* x as usize: truncation toward zero, a negative value saturating to 0.
AsUsize(a) == IF a[1] < 0 THEN 0 ELSE a[1] \div a[2]

(***************************************************************************)
(* Images.  An Array2 carries its own shape <<rows, cols>> and its cells,  *)
(* indexed <<y, x>> from 0; an Image pairs one with its width and height   *)
(* fields, which the code keeps separately from the buffer's shape.        *)
(***************************************************************************)
Transparent == <<0, 0, 0, 0>>

Cells(rows, cols) == (0 .. rows - 1) \X (0 .. cols - 1)

\* Array2::from_elem((rows, cols), elem)
from_elem(rows, cols, elem) ==
    [shape |-> <<rows, cols>>, px |-> [c \in Cells(rows, cols) |-> elem]]

\* Array2::from_shape_fn over a cell function f[<<y, x>>]
from_cells(rows, cols, f) ==
    [shape |-> <<rows, cols>>, px |-> [c \in Cells(rows, cols) |-> f[c]]]

InShape(arr, y, x) == 0 <= y /\ y < arr.shape[1] /\ 0 <= x /\ x < arr.shape[2]

MkImage(w, h, arr) == [width |-> w, height |-> h, image |-> arr]

Image_new(width, height) == MkImage(width, height, from_elem(height, width, Transparent))

\* The result of an Image method: the image it leaves, or a panic
\* (an unwrap of None, an arithmetic overflow).
Done(img) == [panic |-> FALSE, img |-> img]

Panicked(img) == [panic |-> TRUE, img |-> img]

\* Image::get_pixel_unchecked is .get((y, x)).unwrap(): defined inside the
\* buffer's shape, a panic outside it.
get_pixel_unchecked(img, x, y) == img.image.px[<<y, x>>]

set_pixel_unchecked(img, x, y, color) ==
    [img EXCEPT !.image.px[<<y, x>>] = color]

\* blend_images leaving only the rectangle both images span.
blend_images_cropped(self, above, mode) ==
    LET h == Min(self.height, above.height)
        w == Min(self.width, above.width)
    IN  Done(MkImage(w, h, from_cells(h, w,
            [c \in Cells(h, w) |-> blend_pixel(mode, above.image.px[c], self.image.px[c])])))

\* A blend_images that hands the two pixels to blend_pixel the other way
\* round.
blend_images_swapped(self, above, mode) ==
    LET R == Cells(Min(self.height, above.height), Min(self.width, above.width))
    IN  IF \E c \in R : ~InShape(self.image, c[1], c[2]) \/ ~InShape(above.image, c[1], c[2])
        THEN Panicked(self)
        ELSE Done([self EXCEPT !.image.px =
                      [c \in DOMAIN @ |->
                          IF c \in R THEN blend_pixel(mode, @[c], above.image.px[c])
                          ELSE @[c]]])

\* Image::blend_images (src/image/blend.rs): blend above over self, cell by
\* cell, inside the rectangle both images' width/height fields span.
blend_images(self, above, mode) ==
    LET R == Cells(Min(self.height, above.height), Min(self.width, above.width))
    IN  IF \E c \in R : ~InShape(self.image, c[1], c[2]) \/ ~InShape(above.image, c[1], c[2])
        THEN Panicked(self)
        ELSE Done([self EXCEPT !.image.px =
                      [c \in DOMAIN @ |->
                          IF c \in R THEN blend_pixel(mode, above.image.px[c], @[c])
                          ELSE @[c]]])

\* floor(i * old / new), the source coordinate of destination i.
src_coord(i, old, new) == (i * old) \div new

\* resize_nearest_neighbour replacing the buffer but not width and height.
resize_nearest_neighbour_stale(self, new_width, new_height) ==
    Done([self EXCEPT !.image =
             from_cells(new_height, new_width,
                 [c \in Cells(new_height, new_width) |->
                     self.image.px[<<src_coord(c[1], self.height, new_height),
                                     src_coord(c[2], self.width, new_width)>>]])])

resize_nearest_neighbour(self, new_width, new_height) ==
    LET D     == Cells(new_height, new_width)
        sx(c) == src_coord(c[2], self.width, new_width)
        sy(c) == src_coord(c[1], self.height, new_height)
        in(c) == sx(c) < self.width /\ sy(c) < self.height
    IN  IF \E c \in D : in(c) /\ ~InShape(self.image, sy(c), sx(c))
        THEN Panicked(self)
        ELSE Done(MkImage(new_width, new_height,
                 from_cells(new_height, new_width,
                     [c \in D |-> IF in(c) THEN get_pixel_unchecked(self, sx(c), sy(c))
                                  ELSE Transparent])))

\* One channel of the bilinear sample: a, b, c, d weighted by the fractional
\* parts rx/nw and ry/nh of the source coordinate, then as u8.
bilinear_channel(a, b, c, d, rx, nw, ry, nh) ==
    LET v == (a * (nw - rx) * (nh - ry) + b * rx * (nh - ry)
              + c * (nw - rx) * ry + d * rx * ry) \div (nw * nh)
    IN  IF v > 255 THEN 255 ELSE v

\* Image::resize_bilinear.  With an empty source and a non-empty target,
\* self.width - 1 underflows and the first sample unwraps None: a panic.
resize_bilinear(self, new_width, new_height) ==
    LET D     == Cells(new_height, new_width)
        x1(c) == src_coord(c[2], self.width, new_width)
        y1(c) == src_coord(c[1], self.height, new_height)
        rx(c) == (c[2] * self.width) % new_width
        ry(c) == (c[1] * self.height) % new_height
        x2(c) == Min(IF rx(c) = 0 THEN x1(c) ELSE x1(c) + 1, self.width - 1)
        y2(c) == Min(IF ry(c) = 0 THEN y1(c) ELSE y1(c) + 1, self.height - 1)
        at(c) == LET pa == get_pixel_unchecked(self, x1(c), y1(c))
                     pb == get_pixel_unchecked(self, x2(c), y1(c))
                     pc == get_pixel_unchecked(self, x1(c), y2(c))
                     pd == get_pixel_unchecked(self, x2(c), y2(c))
                 IN  [i \in 1..4 |-> bilinear_channel(pa[i], pb[i], pc[i], pd[i],
                                         rx(c), new_width, ry(c), new_height)]
    IN  IF D # {} /\ (self.width = 0 \/ self.height = 0)
        THEN Panicked(self)
        ELSE IF \E c \in D : ~InShape(self.image, y2(c), x2(c))
        THEN Panicked(self)
        ELSE Done(MkImage(new_width, new_height,
                 from_cells(new_height, new_width, [c \in D |-> at(c)])))

\* Image::shift_with_empty(x, y, frac): the translate of the resample engine.
\* The delta is round(x), round(y), or round(x * width), round(y * height)
\* when frac; the image grows by |delta| per axis; source (sx, sy) lands at
\* (sx + dx, sy + dy) when that is inside the new image; the rest stays
\* transparent.
shift_with_empty(self, x, y, frac) ==
    LET dx == IF frac THEN Round(RatMul(x, RatInt(self.width))) ELSE Round(x)
        dy == IF frac THEN Round(RatMul(y, RatInt(self.height))) ELSE Round(y)
        nw == self.width + Abs(dx)
        nh == self.height + Abs(dy)
        D  == Cells(nh, nw)
        from(c) == <<c[1] - dy, c[2] - dx>>
    IN  Done(MkImage(nw, nh,
            from_cells(nh, nw,
                [c \in D |-> IF from(c) \in Cells(self.height, self.width)
                             THEN self.image.px[from(c)]
                             ELSE Transparent])))

(***************************************************************************)
(* Blur engine (src/image/effect.rs).                                      *)
(***************************************************************************)
\* exp(-0.5 * (x / sigma)^2) as an f32, sigma = radius / 3, for the radii the
\* scripts below use.  The argument is exactly 0, -1.125 or -4.5 there.
gaussian_exp(radius, x) ==
    CASE x = 0                -> F32One
      [] 2 * Abs(x) = radius  -> <<10893529, 0 - 25>>
      [] Abs(x) = radius      -> <<11928194, 0 - 30>>

RECURSIVE kernel_sum(_, _)
kernel_sum(radius, n) ==
    IF n = 0 THEN F32Zero
    ELSE F32Add(kernel_sum(radius, n - 1), gaussian_exp(radius, (n - 1) - radius))

\* gaussian_kernel_1d: 2 * radius + 1 weights, each divided by their sum.
gaussian_kernel_1d(radius) ==
    [k \in 1 .. 2 * radius + 1 |->
        F32Div(gaussian_exp(radius, (k - 1) - radius), kernel_sum(radius, 2 * radius + 1))]

\* The accumulator of one output sample after the first n kernel taps:
\* taps whose neighbour lies outside 0 .. len - 1 are skipped.
RECURSIVE conv_acc(_, _, _, _, _)
conv_acc(line, len, kernel, i, n) ==
    IF n = 0 THEN F32Zero
    ELSE LET acc == conv_acc(line, len, kernel, i, n - 1)
             ix  == i + (n - 1) - (Len(kernel) \div 2)
         IN  IF ix >= 0 /\ ix < len THEN F32Add(acc, F32Mul(kernel[n], line[ix]))
             ELSE acc

\* convolve_1d over a channel ch[<<y, x>>] of the given shape: axis 1 runs
\* along each row, axis 0 along each column.
convolve_1d(ch, rows, cols, kernel, axis) ==
    [c \in Cells(rows, cols) |->
        IF axis = 1
        THEN conv_acc([x \in 0 .. cols - 1 |-> ch[<<c[1], x>>]], cols, kernel, c[2], Len(kernel))
        ELSE conv_acc([y \in 0 .. rows - 1 |-> ch[<<y, c[2]>>]], rows, kernel, c[1], Len(kernel))]

\* Image::blur: nothing for radius 0; otherwise each channel is convolved
\* horizontally, then vertically, and cast back with as u8.
blur(self, radius) ==
    IF radius = 0 THEN Done(self)
    ELSE LET kernel  == gaussian_kernel_1d(radius)
             D       == Cells(self.height, self.width)
             chan(i) == [c \in D |-> F32FromInt(self.image.px[c][i])]
             pass(i) == convolve_1d(convolve_1d(chan(i), self.height, self.width, kernel, 1),
                                    self.height, self.width, kernel, 0)
             blurred == [i \in 1..4 |-> pass(i)]
         IN  IF DOMAIN self.image.px # D THEN Panicked(self)
             ELSE Done([self EXCEPT !.image.px =
                          [c \in D |-> [i \in 1..4 |-> F32ToU8(blurred[i][c])]]])

(***************************************************************************)
(* The AST (parse::List) and the run-time values (eval::DataType).         *)
(***************************************************************************)
LError == [k |-> "Error"]

LNil == [k |-> "Nil"]

LInt(n) == [k |-> "Int", int |-> n]

LFloat(r) == [k |-> "Float", flt |-> r]

LStr(s) == [k |-> "Str", str |-> s]

LSym(s) == [k |-> "Sym", sym |-> s]

LCons(xs) == [k |-> "Cons", xs |-> xs]

LVec(xs) == [k |-> "Vec", xs |-> xs]

LQuote(x) == [k |-> "Quote", x |-> x]

Nil == [t |-> "Nil"]

Number(r) == [t |-> "Number", num |-> r]

Str(s) == [t |-> "Str", str |-> s]

Sym(s) == [t |-> "Sym", sym |-> s]

Image(i) == [t |-> "Image", img |-> i]

type_name(v) ==
    CASE v.t = "Nil"    -> "nil"
      [] v.t = "Number" -> "number"
      [] v.t = "Str"    -> "string"
      [] v.t = "Sym"    -> "symbol"
      [] v.t = "Image"  -> "image"

\* Option<T>: None is the empty tuple, Some(x) the one-element tuple.
None == <<>>

Some(x) == <<x>>

\* Display of an f64 literal of the lexer (never negative): an integer
\* prints without a fraction.
display_float(r) ==
    CASE r[2] = 1 -> ToString(r[1])
      [] r[2] = 2 -> ToString(r[1] \div 2) \o ".5"
      [] r[2] = 4 -> ToString(r[1] \div 4) \o (IF r[1] % 4 = 1 THEN ".25" ELSE ".75")

\* impl Display for List
RECURSIVE display(_)
RECURSIVE display_items(_, _)
display_items(es, i) ==
    IF i > Len(es) THEN ""
    ELSE display(es[i]) \o (IF i + 1 <= Len(es) THEN " " ELSE "") \o display_items(es, i + 1)

display(e) ==
    CASE e.k = "Error" -> "<error>"
      [] e.k = "Nil"   -> "nil"
      [] e.k = "Int"   -> ToString(e.int)
      [] e.k = "Float" -> display_float(e.flt)
      [] e.k = "Str"   -> e.str
      [] e.k = "Sym"   -> e.sym
      [] e.k = "Cons"  -> "(" \o display_items(e.xs, 1) \o ")"
      [] e.k = "Vec"   -> "[" \o display_items(e.xs, 1) \o "]"
      [] e.k = "Quote" -> "'" \o display(e.x)

(***************************************************************************)
(* The environment (eval::Env) and the outcome of an evaluation: a value,  *)
(* an error (the message of err! and its arguments), or a panic            *)
(* (unimplemented!, unwrap), each with the environment as it was left.     *)
(***************************************************************************)
VARIABLES
    files,      \* the file system img-load reads: path -> Option<Image>
    vars,       \* Env::vars
    canvas,     \* Env::canvas : Option<Image>
    pc,         \* where main is: "eval", then how the run ended
    saved,      \* what main handed to Image::to_file: Option<Image>
    steps,      \* top-level nodes evaluated so far
    last,       \* the last top-level evaluation: node, environment before, outcome
    probe,      \* the last direct call of blend_pixel: inputs, copy called, output
    pool        \* the buffers of the blur's parallel workers, when a blur runs

state == <<files, vars, canvas, pc, saved, steps, last, probe, pool>>

Env(vs, cv) == [vars |-> vs, canvas |-> cv]

Env_new == Env(<<>>, None)

\* A set that inserts only a name that is not bound yet.
Env_set_keeps_old(env, name, value) ==
    [env EXCEPT !.vars = [n \in DOMAIN @ \cup {name} |-> IF n \in DOMAIN @ THEN @[n] ELSE value]]

Env_set(env, name, value) ==
    [env EXCEPT !.vars = [n \in DOMAIN @ \cup {name} |-> IF n = name THEN value ELSE @[n]]]

Env_get(env, name) == IF name \in DOMAIN env.vars THEN Some(env.vars[name]) ELSE None

NoErr == [msg |-> "", args |-> <<>>]

Ok(env, v) == [st |-> "ok", val |-> v, err |-> NoErr, env |-> env]

Err(env, msg, args) == [st |-> "err", val |-> Nil, err |-> [msg |-> msg, args |-> args], env |-> env]

Panic(env) == [st |-> "panic", val |-> Nil, err |-> NoErr, env |-> env]

\* check!(name, Type, result): the value when it has the type, else the
\* type error.
check(r, type, name) ==
    IF r.st # "ok" \/ r.val.t = type THEN r
    ELSE Err(r.env, "{} must be of type {}, got {}", <<name, type, type_name(r.val)>>)

\* Image::from_file, the external decoder.
Image_from_file(path) == IF path \in DOMAIN files THEN files[path] ELSE None

(***************************************************************************)
(* eval_expr (src/eval.rs).  args are the operands after the head, in    *)
(* order; each branch takes them with next_or! before it evaluates any.    *)
(***************************************************************************)
RECURSIVE eval_expr(_, _)

\* The Ok(DataType::Image(..)) an image operation returns, or its panic.
\* The image an operator returns is also stored as the canvas.
returned_into_canvas(env, r) ==
    IF r.panic THEN Panic(env) ELSE Ok([env EXCEPT !.canvas = Some(r.img)], Image(r.img))

returned(env, r) == IF r.panic THEN Panic(env) ELSE Ok(env, Image(r.img))

\* A canvas branch that evaluates height first, then width.
eval_canvas_height_first(env, args) ==
    IF Len(args) < 1 THEN Err(env, "missing width for canvas", <<>>)
    ELSE IF Len(args) < 2 THEN Err(env, "missing height for canvas", <<>>)
    ELSE LET sized(width, height) ==
                 IF width.st # "ok" THEN width
                 ELSE IF width.val.t = "Number" /\ height.val.t = "Number"
                 THEN Ok([width.env EXCEPT !.canvas =
                             Some(Image_new(AsUsize(width.val.num), AsUsize(height.val.num)))],
                         Nil)
                 ELSE Err(width.env, "width and height must be numbers", <<>>)
             with_height(height) ==
                 IF height.st # "ok" THEN height
                 ELSE sized(eval_expr(height.env, args[1]), height)
         IN  with_height(eval_expr(env, args[2]))

eval_canvas(env, args) ==
    IF Len(args) < 1 THEN Err(env, "missing width for canvas", <<>>)
    ELSE IF Len(args) < 2 THEN Err(env, "missing height for canvas", <<>>)
    ELSE LET sized(width, height) ==
                 IF height.st # "ok" THEN height
                 ELSE IF width.val.t = "Number" /\ height.val.t = "Number"
                 THEN Ok([height.env EXCEPT !.canvas =
                             Some(Image_new(AsUsize(width.val.num), AsUsize(height.val.num)))],
                         Nil)
                 ELSE Err(height.env, "width and height must be numbers", <<>>)
             with_width(width) ==
                 IF width.st # "ok" THEN width
                 ELSE sized(width, eval_expr(width.env, args[2]))
         IN  with_width(eval_expr(env, args[1]))

\* (img-load path)
eval_img_load(env, args) ==
    IF Len(args) < 1 THEN Err(env, "missing path for load", <<>>)
    ELSE LET loaded(path, img) ==
                 IF img # None THEN Ok(path.env, Image(img[1]))
                 ELSE Err(path.env, "failed to load image: {}", <<path.val.str>>)
             with_path(path) ==
                 IF path.st # "ok" THEN path
                 ELSE IF path.val.t = "Str" THEN loaded(path, Image_from_file(path.val.str))
                 ELSE Err(path.env, "path must be a string", <<>>)
         IN  with_path(eval_expr(env, args[1]))

\* img-render taking the image as the canvas when none is defined.
eval_img_render_makes_canvas(env, args) ==
    IF Len(args) < 1 THEN Err(env, "missing image for render", <<>>)
    ELSE LET rendered(image, r) ==
                 IF r.panic THEN Panic([image.env EXCEPT !.canvas = Some(r.img)])
                 ELSE Ok([image.env EXCEPT !.canvas = Some(r.img)], Nil)
             with_image(image) ==
                 IF image.st # "ok" THEN image
                 ELSE IF image.val.t = "Image"
                 THEN IF image.env.canvas # None
                      THEN rendered(image,
                                    blend_images(image.env.canvas[1], image.val.img, "Normal"))
                      ELSE Ok([image.env EXCEPT !.canvas = Some(image.val.img)], Nil)
                 ELSE Err(image.env, "image must be of type Image", <<>>)
         IN  with_image(eval_expr(env, args[1]))

\* (img-render image)
eval_img_render(env, args) ==
    IF Len(args) < 1 THEN Err(env, "missing image for render", <<>>)
    ELSE LET rendered(image, r) ==
                 IF r.panic THEN Panic([image.env EXCEPT !.canvas = Some(r.img)])
                 ELSE Ok([image.env EXCEPT !.canvas = Some(r.img)], Nil)
             with_image(image) ==
                 IF image.st # "ok" THEN image
                 ELSE IF image.val.t = "Image"
                 THEN IF image.env.canvas # None
                      THEN rendered(image,
                                    blend_images(image.env.canvas[1], image.val.img, "Normal"))
                      ELSE Err(image.env, "no canvas defined", <<>>)
                 ELSE Err(image.env, "image must be of type Image", <<>>)
         IN  with_image(eval_expr(env, args[1]))

\* (img-resize image method width height)
eval_img_resize(env, args) ==
    IF Len(args) < 1 THEN Err(env, "missing image for resize", <<>>)
    ELSE IF Len(args) < 2 THEN Err(env, "missing resize method for resize", <<>>)
    ELSE IF Len(args) < 3 THEN Err(env, "missing width for resize", <<>>)
    ELSE IF Len(args) < 4 THEN Err(env, "missing height for resize", <<>>)
    ELSE LET resized(image, m, w, h, env2) ==
                 IF m \in {"nearest", "nearest-neighbor", "nearest-neighbour", "nn"}
                 THEN returned(env2, resize_nearest_neighbour(image, w, h))
                 ELSE IF m \in {"bilinear", "b"}
                 THEN returned(env2, resize_bilinear(image, w, h))
                 ELSE Err(env2, "unknown resize method: {}", <<m>>)
             with_height(image, method, width, height) ==
                 IF height.st # "ok" THEN height
                 ELSE resized(image.val.img, method.val.sym, AsUsize(width.val.num),
                              AsUsize(height.val.num), height.env)
             with_width(image, method, width) ==
                 IF width.st # "ok" THEN width
                 ELSE with_height(image, method, width,
                                  check(eval_expr(width.env, args[4]), "Number", "height"))
             with_method(image, method) ==
                 IF method.st # "ok" THEN method
                 ELSE with_width(image, method,
                                 check(eval_expr(method.env, args[3]), "Number", "width"))
             with_image(image) ==
                 IF image.st # "ok" THEN image
                 ELSE with_method(image, check(eval_expr(image.env, args[2]), "Sym", "method"))
         IN  with_image(check(eval_expr(env, args[1]), "Image", "image"))

\* img-move passing the offsets to shift_with_empty in the other order.
eval_img_move_swapped(env, args) ==
    IF Len(args) < 4 THEN Ok(env, Sym("pixels"))
    ELSE LET with_y(image, x, y) ==
                 IF y.st # "ok" THEN y
                 ELSE returned(y.env, shift_with_empty(image.val.img, y.val.num, x.val.num, FALSE))
             with_x(image, x) ==
                 IF x.st # "ok" THEN x
                 ELSE with_y(image, x, check(eval_expr(x.env, args[3]), "Number", "y"))
             with_image(image) ==
                 IF image.st # "ok" THEN image
                 ELSE with_x(image, check(eval_expr(image.env, args[2]), "Number", "x"))
         IN  with_image(check(eval_expr(env, args[1]), "Image", "image"))

\* (img-move image x y [method]): with no fourth operand, next_or_default!
\* returns Ok(its default) from eval_expr itself.
eval_img_move(env, args) ==
    IF Len(args) < 1 THEN Err(env, "missing image for move", <<>>)
    ELSE IF Len(args) < 2 THEN Err(env, "missing x offset for move", <<>>)
    ELSE IF Len(args) < 3 THEN Err(env, "missing y offset for move", <<>>)
    ELSE IF Len(args) < 4 THEN Ok(env, Sym("pixels"))
    ELSE LET moved(image, x, y, m, env2) ==
                 IF m \in {"pixel", "pixels", "px"}
                 THEN returned(env2, shift_with_empty(image, x, y, FALSE))
                 ELSE IF m \in {"frac", "fract", "fraction", "fractions"}
                 THEN returned(env2, shift_with_empty(image, x, y, TRUE))
                 ELSE Err(env2, "unknown move method: {}", <<m>>)
             with_method(image, x, y, method) ==
                 IF method.st # "ok" THEN method
                 ELSE moved(image.val.img, x.val.num, y.val.num, method.val.sym, method.env)
             with_y(image, x, y) ==
                 IF y.st # "ok" THEN y
                 ELSE with_method(image, x, y, check(eval_expr(y.env, args[4]), "Sym", "method"))
             with_x(image, x) ==
                 IF x.st # "ok" THEN x
                 ELSE with_y(image, x, check(eval_expr(x.env, args[3]), "Number", "y"))
             with_image(image) ==
                 IF image.st # "ok" THEN image
                 ELSE with_x(image, check(eval_expr(image.env, args[2]), "Number", "x"))
         IN  with_image(check(eval_expr(env, args[1]), "Image", "image"))

\* An img-mix that asks for each operand only when it is about to evaluate it.
eval_img_mix_lazy(env, args) ==
    IF Len(args) < 1 THEN Err(env, "missing first image for mix", <<>>)
    ELSE LET mixed(image_a, image_b, m, env2) ==
                 IF m \notin {"normal", "multiply", "screen", "overlay"}
                 THEN Err(env2, "unknown blend mode: {}", <<m>>)
                 ELSE returned(env2, blend_images(image_a, image_b,
                                   CASE m = "normal"   -> "Normal"
                                     [] m = "multiply" -> "Multiply"
                                     [] m = "screen"   -> "Screen"
                                     [] m = "overlay"  -> "Overlay"))
             with_mode(image_a, image_b, mode) ==
                 IF mode.st # "ok" THEN mode
                 ELSE mixed(image_a.val.img, image_b.val.img, mode.val.sym, mode.env)
             with_b(image_a, image_b) ==
                 IF image_b.st # "ok" THEN image_b
                 ELSE IF Len(args) < 3 THEN Err(image_b.env, "missing blend mode for mix", <<>>)
                 ELSE with_mode(image_a, image_b,
                                check(eval_expr(image_b.env, args[3]), "Sym", "mode"))
             with_a(image_a) ==
                 IF image_a.st # "ok" THEN image_a
                 ELSE IF Len(args) < 2 THEN Err(image_a.env, "missing second image for mix", <<>>)
                 ELSE with_b(image_a, check(eval_expr(image_a.env, args[2]), "Image", "image_b"))
         IN  with_a(check(eval_expr(env, args[1]), "Image", "image_a"))

\* (img-mix bottom top mode): top is blended over a clone of bottom.
eval_img_mix(env, args) ==
    IF Len(args) < 1 THEN Err(env, "missing first image for mix", <<>>)
    ELSE IF Len(args) < 2 THEN Err(env, "missing second image for mix", <<>>)
    ELSE IF Len(args) < 3 THEN Err(env, "missing blend mode for mix", <<>>)
    ELSE LET mixed(image_a, image_b, m, env2) ==
                 IF m \notin {"normal", "multiply", "screen", "overlay"}
                 THEN Err(env2, "unknown blend mode: {}", <<m>>)
                 ELSE returned(env2, blend_images(image_a, image_b,
                                   CASE m = "normal"   -> "Normal"
                                     [] m = "multiply" -> "Multiply"
                                     [] m = "screen"   -> "Screen"
                                     [] m = "overlay"  -> "Overlay"))
             with_mode(image_a, image_b, mode) ==
                 IF mode.st # "ok" THEN mode
                 ELSE mixed(image_a.val.img, image_b.val.img, mode.val.sym, mode.env)
             with_b(image_a, image_b) ==
                 IF image_b.st # "ok" THEN image_b
                 ELSE with_mode(image_a, image_b,
                                check(eval_expr(image_b.env, args[3]), "Sym", "mode"))
             with_a(image_a) ==
                 IF image_a.st # "ok" THEN image_a
                 ELSE with_b(image_a, check(eval_expr(image_a.env, args[2]), "Image", "image_b"))
         IN  with_a(check(eval_expr(env, args[1]), "Image", "image_a"))

\* The eff-blur branch with no test of the radius' sign.
eval_eff_blur_unsigned(env, args) ==
    IF Len(args) < 1 THEN Err(env, "missing image for blur", <<>>)
    ELSE IF Len(args) < 2 THEN Err(env, "missing radius for blur", <<>>)
    ELSE LET with_radius(image, radius) ==
                 IF radius.st # "ok" THEN radius
                 ELSE returned(radius.env, blur(image.val.img, AsUsize(radius.val.num)))
             with_image(image) ==
                 IF image.st # "ok" THEN image
                 ELSE with_radius(image, check(eval_expr(image.env, args[2]), "Number", "radius"))
         IN  with_image(check(eval_expr(env, args[1]), "Image", "image"))

\* (eff-blur image radius)
eval_eff_blur(env, args) ==
    IF Len(args) < 1 THEN Err(env, "missing image for blur", <<>>)
    ELSE IF Len(args) < 2 THEN Err(env, "missing radius for blur", <<>>)
    ELSE LET with_radius(image, radius) ==
                 IF radius.st # "ok" THEN radius
                 ELSE IF radius.val.num[1] < 0
                 THEN Err(radius.env, "blur radius cannot be negative", <<>>)
                 ELSE returned(radius.env, blur(image.val.img, AsUsize(radius.val.num)))
             with_image(image) ==
                 IF image.st # "ok" THEN image
                 ELSE with_radius(image, check(eval_expr(image.env, args[2]), "Number", "radius"))
         IN  with_image(check(eval_expr(env, args[1]), "Image", "image"))

\* (def name value): the name is the operand's text, not its value.
eval_def(env, args) ==
    IF Len(args) < 1 THEN Err(env, "missing variable name for def", <<>>)
    ELSE IF Len(args) < 2 THEN Err(env, "missing value for variable", <<>>)
    ELSE LET with_value(value) ==
                 IF value.st # "ok" THEN value
                 ELSE Ok(Env_set(value.env, display(args[1]), value.val), Nil)
         IN  with_value(eval_expr(env, args[2]))

\* pipeline_step putting the accumulated node after the step's operands.
pipeline_step_appends(result_list, f) ==
    CASE f.k = "Sym" ->
            [ok |-> TRUE, node |-> LCons(<<f, result_list>>), err |-> NoErr]
      [] f.k = "Cons" /\ Len(f.xs) = 0 ->
            [ok |-> FALSE, node |-> result_list,
             err |-> [msg |-> "empty function in ->", args |-> <<>>]]
      [] f.k = "Cons" /\ Len(f.xs) > 0 ->
            [ok |-> TRUE, node |-> LCons(f.xs \o <<result_list>>), err |-> NoErr]
      [] OTHER ->
            [ok |-> FALSE, node |-> result_list,
             err |-> [msg |-> "{} is not supported in ->", args |-> <<display(f)>>]]

\* One turn of the loop of the -> branch: the accumulated node threaded into
\* step f, or the error that ends the rewrite.
pipeline_step(result_list, f) ==
    CASE f.k = "Sym" ->
            [ok |-> TRUE, node |-> LCons(<<f, result_list>>), err |-> NoErr]
      [] f.k = "Cons" /\ Len(f.xs) = 0 ->
            [ok |-> FALSE, node |-> result_list,
             err |-> [msg |-> "empty function in ->", args |-> <<>>]]
      [] f.k = "Cons" /\ Len(f.xs) > 0 ->
            [ok |-> TRUE, node |-> LCons(<<f.xs[1], result_list>> \o Tail(f.xs)), err |-> NoErr]
      [] OTHER ->
            [ok |-> FALSE, node |-> result_list,
             err |-> [msg |-> "{} is not supported in ->", args |-> <<display(f)>>]]

\* The loop over fns from its i-th element on.
RECURSIVE pipeline_rewrite(_, _, _)
pipeline_rewrite(result_list, fns, i) ==
    IF i > Len(fns) THEN [ok |-> TRUE, node |-> result_list, err |-> NoErr]
    ELSE LET next(r) == IF r.ok THEN pipeline_rewrite(r.node, fns, i + 1) ELSE r
         IN  next(pipeline_step(result_list, fns[i]))

\* A -> that evaluates first for its effects before it rewrites the steps.
eval_pipeline_eager(env, args) ==
    IF Len(args) < 1 THEN Err(env, "missing first argument for ->", <<>>)
    ELSE LET run(pre, r) == IF r.ok THEN eval_expr(env, r.node)
                            ELSE Err(pre.env, r.err.msg, r.err.args)
         IN  IF Tail(args) = <<>> THEN eval_expr(env, args[1])
             ELSE run(eval_expr(env, args[1]), pipeline_rewrite(args[1], Tail(args), 1))

\* (-> first step ...)
eval_pipeline(env, args) ==
    IF Len(args) < 1 THEN Err(env, "missing first argument for ->", <<>>)
    ELSE LET run(r) == IF r.ok THEN eval_expr(env, r.node)
                       ELSE Err(env, r.err.msg, r.err.args)
         IN  IF Tail(args) = <<>> THEN eval_expr(env, args[1])
             ELSE run(pipeline_rewrite(args[1], Tail(args), 1))

ArithOps == {"+", "-", "*", "/", "%"}

\* The arithmetic branch with no zero test in the % arm: the f64 remainder
\* by zero is NaN, written <<0, 0>>.
eval_arith_unchecked_rem(op, env, args) ==
    IF Len(args) < 1 THEN Err(env, "missing first argument for arithmetic operation", <<>>)
    ELSE IF Len(args) < 2 THEN Err(env, "missing second argument for arithmetic operation", <<>>)
    ELSE LET result(a, b, env2) ==
                 CASE op = "+" -> Ok(env2, Number(RatAdd(a, b)))
                   [] op = "-" -> Ok(env2, Number(RatSub(a, b)))
                   [] op = "*" -> Ok(env2, Number(RatMul(a, b)))
                   [] op = "/" -> IF b[1] = 0 THEN Err(env2, "division by zero", <<>>)
                                  ELSE Ok(env2, Number(RatDiv(a, b)))
                   [] op = "%" -> IF b[1] = 0 THEN Ok(env2, Number(<<0, 0>>))
                                  ELSE Ok(env2, Number(RatRem(a, b)))
             with_b(a, b) == IF b.st # "ok" THEN b ELSE result(a.val.num, b.val.num, b.env)
             with_a(a) ==
                 IF a.st # "ok" THEN a
                 ELSE with_b(a, check(eval_expr(a.env, args[2]), "Number", "b"))
         IN  with_a(check(eval_expr(env, args[1]), "Number", "a"))

\* (+ a b), (- a b), (* a b), (/ a b), (% a b)
eval_arith(op, env, args) ==
    IF Len(args) < 1 THEN Err(env, "missing first argument for arithmetic operation", <<>>)
    ELSE IF Len(args) < 2 THEN Err(env, "missing second argument for arithmetic operation", <<>>)
    ELSE LET result(a, b, env2) ==
                 CASE op = "+" -> Ok(env2, Number(RatAdd(a, b)))
                   [] op = "-" -> Ok(env2, Number(RatSub(a, b)))
                   [] op = "*" -> Ok(env2, Number(RatMul(a, b)))
                   [] op = "/" -> IF b[1] = 0 THEN Err(env2, "division by zero", <<>>)
                                  ELSE Ok(env2, Number(RatDiv(a, b)))
                   [] op = "%" -> IF b[1] = 0 THEN Err(env2, "division by zero", <<>>)
                                  ELSE Ok(env2, Number(RatRem(a, b)))
             with_b(a, b) == IF b.st # "ok" THEN b ELSE result(a.val.num, b.val.num, b.env)
             with_a(a) ==
                 IF a.st # "ok" THEN a
                 ELSE with_b(a, check(eval_expr(a.env, args[2]), "Number", "b"))
         IN  with_a(check(eval_expr(env, args[1]), "Number", "a"))

\* The match on the head of a non-empty application.
eval_apply(env, f, args) ==
    IF f.k # "Sym" THEN Err(env, "unknown function: {}", <<display(f)>>)
    ELSE CASE f.sym = "canvas"     -> eval_canvas(env, args)
           [] f.sym = "img-load"   -> eval_img_load(env, args)
           [] f.sym = "img-render" -> eval_img_render(env, args)
           [] f.sym = "img-resize" -> eval_img_resize(env, args)
           [] f.sym = "img-move"   -> eval_img_move(env, args)
           [] f.sym = "img-mix"    -> eval_img_mix(env, args)
           [] f.sym = "eff-blur"   -> eval_eff_blur(env, args)
           [] f.sym = "def"        -> eval_def(env, args)
           [] f.sym = "->"         -> eval_pipeline(env, args)
           [] f.sym \in ArithOps   -> eval_arith(f.sym, env, args)
           [] OTHER                -> Err(env, "unknown function: {}", <<display(f)>>)

eval_expr(env, expr) ==
    CASE expr.k = "Error" -> Panic(env)
      [] expr.k = "Nil"   -> Panic(env)
      [] expr.k = "Int"   -> Ok(env, Number(RatInt(expr.int)))
      [] expr.k = "Float" -> Ok(env, Number(expr.flt))
      [] expr.k = "Str"   -> Ok(env, Str(expr.str))
      [] expr.k = "Sym"   ->
            LET value == Env_get(env, expr.sym) IN
            IF value # None THEN Ok(env, value[1])
            ELSE Err(env, "undefined symbol: {}", <<expr.sym>>)
      [] expr.k = "Quote" ->
            IF expr.x.k = "Sym" THEN Ok(env, Sym(expr.x.sym)) ELSE Panic(env)
      [] expr.k = "Cons"  ->
            IF Len(expr.xs) = 0 THEN Err(env, "empty list cannot be evaluated", <<>>)
            ELSE eval_apply(env, expr.xs[1], Tail(expr.xs))
      [] expr.k = "Vec"   -> Panic(env)

(***************************************************************************)
(* Bounds of the model.                                                    *)
(***************************************************************************)
\* Top-level nodes of a script.
MaxSteps == 3

\* Width and height of the images EngineInit draws.
MaxDim == 2

(***************************************************************************)
(* Pixels and images the scripts work on.                                  *)
(***************************************************************************)
PGhost == <<200, 100, 50, 0>>

PSolid == <<10, 200, 30, 255>>

PWhite == <<255, 255, 255, 255>>

PHalf == <<255, 128, 0, 128>>

PFaint == <<40, 80, 120, 1>>

Palette == <<PSolid, PHalf, PGhost, PFaint, PWhite, Transparent>>

\* A w x h image all of one pixel.
Uniform(w, h, p) == MkImage(w, h, from_elem(h, w, p))

\* A w x h image whose cell (x, y) holds Palette[((x + w * y + k) mod 6) + 1].
Patterned(w, h, k) ==
    MkImage(w, h, from_cells(h, w,
        [c \in Cells(h, w) |-> Palette[((c[2] + w * c[1] + k) % Len(Palette)) + 1]]))

\* A 10 x 10 opaque image whose cell (x, y) holds <<x, y, 0, 255>>.
Opaque10 ==
    MkImage(10, 10, from_cells(10, 10, [c \in Cells(10, 10) |-> <<c[2], c[1], 0, 255>>]))

\* The files of a run: a 2 x 2 and a 1 x 2 image, and one that does not decode.
RunFiles ==
    [path \in {"a.png", "b.png", "bad.png"} |->
        CASE path = "a.png"   -> Some(Patterned(2, 2, 0))
          [] path = "b.png"   -> Some(Patterned(1, 2, 1))
          [] path = "bad.png" -> None]

(***************************************************************************)
(* The scripts: the top-level forms a run draws from, by head.             *)
(***************************************************************************)
App(name, args) == LCons(<<LSym(name)>> \o args)

Q(name) == LQuote(LSym(name))

\* The lexer has no negative literal: -n is written (- 0 n).
Neg(n) == App("-", <<LInt(0), LInt(n)>>)

Half == LFloat(<<1, 2>>)

LoadA == App("img-load", <<LStr("a.png")>>)

LoadB == App("img-load", <<LStr("b.png")>>)

CanvasForms ==
    { App("canvas", <<LInt(2), LInt(2)>>),
      App("canvas", <<LInt(1), LInt(2)>>),
      App("canvas", <<LFloat(<<5, 2>>), LInt(1)>>),
      App("canvas", <<Neg(1), LInt(2)>>),
      App("canvas", <<LSym("x"), LInt(1)>>),
      App("canvas", <<LStr("s"), LInt(2)>>),
      App("canvas", <<LSym("y"), App("def", <<LSym("x"), LInt(1)>>)>>),
      App("canvas", <<App("def", <<LSym("x"), LInt(1)>>), LSym("y")>>),
      App("canvas", <<App("def", <<LSym("x"), LInt(2)>>), LSym("x")>>),
      App("canvas", <<App("def", <<LSym("x"), LInt(1)>>)>>),
      App("canvas", <<>>) }

LoadForms ==
    { LoadA, LoadB,
      App("img-load", <<LStr("bad.png")>>),
      App("img-load", <<LInt(5)>>),
      App("img-load", <<>>) }

RenderForms ==
    { App("img-render", <<LSym("a")>>),
      App("img-render", <<LSym("b")>>),
      App("img-render", <<LoadA>>),
      App("img-render", <<LoadB>>),
      App("img-render", <<LInt(5)>>),
      App("img-render", <<>>) }

ResizeForms ==
    { App("img-resize", <<LSym("a"), Q("nn"), LInt(1), LInt(2)>>),
      App("img-resize", <<LSym("a"), Q("bilinear"), LInt(1), LInt(1)>>),
      App("img-resize", <<LoadB, Q("b"), LInt(2), LInt(2)>>),
      App("img-resize", <<LSym("a"), Q("cubic"), LInt(1), LInt(1)>>),
      App("img-resize", <<LSym("a"), Q("nn"), LInt(1)>>),
      App("img-resize", <<App("canvas", <<LInt(1), LInt(1)>>), Q("nn")>>),
      App("img-resize", <<LoadA>>),
      App("img-resize", <<>>) }

MoveForms ==
    { App("img-move", <<LSym("a"), LInt(1), Neg(1), Q("pixels")>>),
      App("img-move", <<LSym("a"), Half, LInt(0), Q("frac")>>),
      App("img-move", <<LSym("a"), LInt(1), LInt(0)>>),
      App("img-move", <<LoadB, LInt(0), LInt(1)>>),
      App("img-move", <<LSym("a"), LInt(1), LInt(1), Q("warp")>>),
      App("img-move", <<LSym("a"), LInt(1)>>),
      App("img-move", <<App("def", <<LSym("x"), LInt(1)>>)>>),
      App("img-move", <<>>) }

MixForms ==
    { App("img-mix", <<LSym("a"), LSym("b"), Q("normal")>>),
      App("img-mix", <<LSym("b"), LSym("a"), Q("multiply")>>),
      App("img-mix", <<LoadA, LoadB, Q("screen")>>),
      App("img-mix", <<LSym("a"), LSym("a"), Q("overlay")>>),
      App("img-mix", <<LSym("a"), LSym("b"), Q("burn")>>),
      App("img-mix", <<LSym("a"), LSym("b")>>),
      App("img-mix", <<LoadA, App("def", <<LSym("x"), LInt(1)>>)>>),
      App("img-mix", <<LoadA>>),
      App("img-mix", <<>>) }

BlurForms ==
    { App("eff-blur", <<LSym("a"), LInt(0)>>),
      App("eff-blur", <<LSym("a"), LInt(1)>>),
      App("eff-blur", <<LoadB, Half>>),
      App("eff-blur", <<LSym("a"), Neg(1)>>),
      App("eff-blur", <<LSym("a")>>),
      App("eff-blur", <<App("canvas", <<LInt(1), LInt(1)>>)>>),
      App("eff-blur", <<>>) }

DefForms ==
    { App("def", <<LSym("a"), LoadA>>),
      App("def", <<LSym("b"), LoadB>>),
      App("def", <<LSym("x"), LInt(1)>>),
      App("def", <<LSym("x"), App("+", <<LSym("x"), LInt(1)>>)>>),
      App("def", <<LSym("a"), App("img-mix", <<LSym("a"), LSym("b"), Q("normal")>>)>>),
      App("def", <<LSym("a"), App("img-move", <<LSym("a"), LInt(1), LInt(0)>>)>>),
      App("def", <<LStr("x"), LInt(2)>>),
      App("def", <<LSym("x"), LSym("y")>>),
      App("def", <<LSym("x"), App("+", <<App("def", <<LSym("x"), LInt(5)>>), LInt(1)>>)>>),
      App("def", <<LSym("x")>>),
      App("def", <<>>) }

PipelineForms ==
    { App("->", <<LInt(5), App("+", <<LInt(1)>>), App("*", <<LInt(2)>>)>>),
      App("->", <<LInt(5)>>),
      App("->", <<LStr("a.png"), LSym("img-load"), LSym("img-render")>>),
      App("->", <<LSym("a"), App("img-mix", <<LSym("b"), Q("normal")>>),
                  App("img-resize", <<Q("nn"), LInt(1), LInt(1)>>), LSym("img-render")>>),
      App("->", <<LInt(2), App("canvas", <<LInt(1)>>)>>),
      App("->", <<LSym("x"), App("-", <<LInt(3)>>), App("def", <<LSym("x")>>)>>),
      App("->", <<App("->", <<LInt(1), App("+", <<LInt(1)>>)>>), App("def", <<LSym("x")>>)>>),
      App("->", <<LInt(5), LCons(<<LCons(<<>>), LInt(1)>>)>>),
      App("->", <<App("def", <<LSym("x"), LInt(7)>>), LCons(<<>>)>>),
      App("->", <<App("canvas", <<LInt(1), LInt(1)>>), LInt(7)>>),
      App("->", <<App("def", <<LSym("x"), LInt(7)>>), LSym("foo"), LStr("s"), LCons(<<>>)>>),
      App("->", <<App("canvas", <<LInt(1), LInt(1)>>), App("def", <<LSym("x")>>), LCons(<<>>), LInt(7)>>),
      App("->", <<>>) }

ArithForms ==
    { App("+", <<LInt(1), LInt(2)>>),
      App("-", <<LSym("x"), LInt(2)>>),
      App("*", <<Half, LInt(3)>>),
      App("/", <<LInt(1), LInt(2)>>),
      App("/", <<LSym("x"), LInt(0)>>),
      App("%", <<LInt(5), LInt(2)>>),
      App("%", <<LInt(1), LInt(0)>>),
      App("/", <<LInt(1), LInt(0)>>),
      App("/", <<LInt(0), LInt(0)>>),
      App("%", <<Half, App("-", <<Half, Half>>)>>),
      App("*", <<LInt(3), LInt(0)>>),
      App("+", <<LStr("s"), LInt(1)>>),
      App("+", <<LInt(1)>>),
      App("/", <<App("def", <<LSym("x"), LInt(1)>>)>>),
      App("%", <<>>) }

AtomForms ==
    { LInt(5), Half, LStr("s"), LSym("x"), LSym("foo"), Q("pixels"),
      LNil, LQuote(LInt(5)), LVec(<<LInt(1)>>), LCons(<<>>) }

UnknownForms ==
    { App("foo", <<LInt(1)>>),
      LCons(<<App("+", <<LInt(1), LInt(2)>>), LInt(3)>>) }

(***************************************************************************)
(* main (src/main.rs): the loop over the parsed top-level nodes, then the  *)
(* save.  pc is "eval" while nodes remain; a failing node is reported and  *)
(* main returns ("reported"); a panic aborts the process ("aborted").      *)
(***************************************************************************)
NoProbe == [by |-> "none", mode |-> "Normal", top |-> Transparent,
            bottom |-> Transparent, out |-> Transparent]

Init ==
    /\ files = RunFiles
    /\ vars = Env_new.vars
    /\ canvas = Env_new.canvas
    /\ pc = "eval"
    /\ saved = None
    /\ steps = 0
    /\ last = None
    /\ probe = NoProbe
    /\ pool = None

\* Step with the loop going on after a node failed.
Step_continues(e, bound) ==
    /\ pc = "eval"
    /\ steps < bound
    /\ \E r \in {eval_expr(Env(vars, canvas), e)} :
       /\ vars' = r.env.vars
       /\ canvas' = r.env.canvas
       /\ pc' = IF r.st = "panic" THEN "aborted" ELSE "eval"
       /\ last' = Some([node |-> e, pre |-> Env(vars, canvas), res |-> r])
    /\ steps' = steps + 1
    /\ UNCHANGED <<files, saved, probe, pool>>

\* One turn of `for e in lists`: evaluate node e against the environment.
Step(e, bound) ==
    /\ pc = "eval"
    /\ steps < bound
    /\ \E r \in {eval_expr(Env(vars, canvas), e)} :
       /\ vars' = r.env.vars
       /\ canvas' = r.env.canvas
       /\ pc' = CASE r.st = "ok"    -> "eval"
                  [] r.st = "err"   -> "reported"
                  [] r.st = "panic" -> "aborted"
       /\ last' = Some([node |-> e, pre |-> Env(vars, canvas), res |-> r])
    /\ steps' = steps + 1
    /\ UNCHANGED <<files, saved, probe, pool>>

TopCanvas == \E e \in CanvasForms : Step(e, MaxSteps)

TopImgLoad == \E e \in LoadForms : Step(e, MaxSteps)

TopImgRender == \E e \in RenderForms : Step(e, MaxSteps)

TopImgResize == \E e \in ResizeForms : Step(e, MaxSteps)

TopImgMove == \E e \in MoveForms : Step(e, MaxSteps)

TopImgMix == \E e \in MixForms : Step(e, MaxSteps)

TopEffBlur == \E e \in BlurForms : Step(e, MaxSteps)

TopDef == \E e \in DefForms : Step(e, MaxSteps)

TopPipeline == \E e \in PipelineForms : Step(e, MaxSteps)

TopArith == \E e \in ArithForms : Step(e, MaxSteps)

TopAtom == \E e \in AtomForms : Step(e, MaxSteps)

TopUnknown == \E e \in UnknownForms : Step(e, MaxSteps)

\* The loop is over: the canvas, if any, goes to Image::to_file, which the
\* encoder may fail; the failure is printed and changes nothing else.
SaveOk ==
    /\ pc = "eval"
    /\ canvas # None
    /\ saved' = canvas
    /\ pc' = "saved"
    /\ UNCHANGED <<files, vars, canvas, steps, last, probe, pool>>

SaveErr ==
    /\ pc = "eval"
    /\ canvas # None
    /\ saved' = canvas
    /\ pc' = "save_failed"
    /\ UNCHANGED <<files, vars, canvas, steps, last, probe, pool>>

SkipSave ==
    /\ pc = "eval"
    /\ canvas = None
    /\ pc' = "no_canvas"
    /\ UNCHANGED <<files, vars, canvas, saved, steps, last, probe, pool>>

Next ==
    \/ TopCanvas \/ TopImgLoad \/ TopImgRender \/ TopImgResize \/ TopImgMove
    \/ TopImgMix \/ TopEffBlur \/ TopDef \/ TopPipeline \/ TopArith
    \/ TopAtom \/ TopUnknown
    \/ SaveOk \/ SaveErr \/ SkipSave

Spec == Init /\ [][Next]_state

(***************************************************************************)
(* The image operators on their own: the environment starts with a and b   *)
(* bound to images of every size up to MaxDim and m to a 10 x 10 opaque    *)
(* image, and each action evaluates one application over them.  The        *)
(* applications bind nothing, so one per drawn environment shows them all. *)
(***************************************************************************)
Dims == (0 .. MaxDim) \X (0 .. MaxDim)

\* The images a is drawn from: one of every size, of mixed pixels.
BottomPool == { Patterned(d[1], d[2], 0) : d \in Dims }

\* The images b is drawn from: mixed, all opaque, all of alpha 0.
TopPool ==
    UNION { { Patterned(w, MaxDim, 1), Uniform(w, MaxDim, PSolid), Uniform(w, MaxDim, PGhost) }
            : w \in {1, MaxDim} }

EngineInit ==
    /\ files = [path \in {} |-> None]
    /\ \E ia \in BottomPool, ib \in TopPool :
          vars = [n \in {"a", "b", "m"} |->
                     CASE n = "a" -> Image(ia) [] n = "b" -> Image(ib) [] n = "m" -> Image(Opaque10)]
    /\ canvas = None
    /\ pc = "eval"
    /\ saved = None
    /\ steps = 0
    /\ last = None
    /\ probe = NoProbe
    /\ pool = None

EngMixForms ==
    { App("img-mix", <<LSym("a"), LSym("b"), Q("normal")>>),
      App("img-mix", <<LSym("a"), LSym("b"), Q("multiply")>>),
      App("img-mix", <<LSym("a"), LSym("b"), Q("screen")>>),
      App("img-mix", <<LSym("a"), LSym("b"), Q("overlay")>>),
      App("img-mix", <<LSym("b"), LSym("a"), Q("normal")>>) }

EngMoveForms ==
    { App("img-move", <<LSym("a"), LInt(1), Neg(1), Q("pixels")>>),
      App("img-move", <<LSym("a"), Neg(2), LInt(0), Q("px")>>),
      App("img-move", <<LSym("b"), LFloat(<<3, 2>>), LInt(1), Q("pixel")>>),
      App("img-move", <<LSym("m"), LInt(3), Neg(2), Q("pixels")>>),
      App("img-move", <<LSym("b"), Half, LInt(0), Q("frac")>>) }

EngResizeForms ==
    { App("img-resize", <<LSym("a"), Q("nn"), LInt(1), LInt(2)>>),
      App("img-resize", <<LSym("a"), Q("nearest"), LInt(2), LInt(0)>>),
      App("img-resize", <<LSym("b"), Q("bilinear"), LInt(2), LInt(1)>>),
      App("img-resize", <<LSym("a"), Q("b"), LInt(1), LInt(1)>>) }

EngBlurForms ==
    { App("eff-blur", <<LSym("a"), LInt(0)>>),
      App("eff-blur", <<LSym("a"), LInt(1)>>),
      App("eff-blur", <<LSym("b"), LInt(2)>>) }

\* One application evaluated against the drawn environment.
Apply(e) ==
    /\ last = None
    /\ Step(e, MaxSteps)

EngMix == \E e \in EngMixForms : Apply(e)

EngMove == \E e \in EngMoveForms : Apply(e)

EngResize == \E e \in EngResizeForms : Apply(e)

EngBlur == \E e \in EngBlurForms : Apply(e)

EngineNext == EngMix \/ EngMove \/ EngResize \/ EngBlur

SpecEngine == EngineInit /\ [][EngineNext]_state

(***************************************************************************)
(* The two copies of BlendMode::blend_pixel called directly on pixels.     *)
(***************************************************************************)
TopPixels == { PGhost, Transparent, <<255, 255, 255, 0>>, PFaint, PHalf, PSolid }

BottomPixels == { PGhost, Transparent, PFaint, PHalf, <<124, 7, 250, 249>>, PWhite }

\* mode.blend_pixel(top, bottom) of src/image/blend.rs
BlendPixel ==
    \E mode \in BlendModes, top \in TopPixels, bottom \in BottomPixels :
        /\ probe = NoProbe
        /\ probe' = [by |-> "blend.rs", mode |-> mode, top |-> top, bottom |-> bottom,
                     out |-> blend_pixel(mode, top, bottom)]
        /\ UNCHANGED <<files, vars, canvas, pc, saved, steps, last, pool>>

\* mode.blend_pixel(top, bottom) of src/image.rs
BlendPixelImageRs ==
    \E mode \in BlendModes, top \in TopPixels, bottom \in BottomPixels :
        /\ probe = NoProbe
        /\ probe' = [by |-> "image.rs", mode |-> mode, top |-> top, bottom |-> bottom,
                     out |-> blend_pixel_image_rs(mode, top, bottom)]
        /\ UNCHANGED <<files, vars, canvas, pc, saved, steps, last, pool>>

PixelNext == BlendPixel \/ BlendPixelImageRs

SpecPixel == Init /\ [][PixelNext]_state

(***************************************************************************)
(* The blur's worker pool (src/image/effect.rs): the four channels are     *)
(* mapped in parallel, and inside each convolve_1d the rows (Axis(1)) or   *)
(* the columns (Axis(0)) of the output are filled in parallel, each worker *)
(* holding one mutable output line and the matching line of the shared     *)
(* input.  A worker's loop over its line is one step: it touches nothing   *)
(* another worker can see.                                                 *)
(***************************************************************************)
\* channels[i][[y, x]] = pixel[i] as f32
channel_of(self, i) ==
    [c \in Cells(self.height, self.width) |-> F32FromInt(self.image.px[c][i])]

\* The closure of the Axis(1) arm: the output row computed from in_row.
convolve_row(input, cols, kernel, y) ==
    [x \in 0 .. cols - 1 |->
        conv_acc([ix \in 0 .. cols - 1 |-> input[<<y, ix>>]], cols, kernel, x, Len(kernel))]

\* The closure of the Axis(0) arm: the output column computed from in_col.
convolve_col(input, rows, kernel, x) ==
    [y \in 0 .. rows - 1 |->
        conv_acc([iy \in 0 .. rows - 1 |-> input[<<iy, x>>]], rows, kernel, y, Len(kernel))]

\* out_row[x] = acc for every x of row y
write_row(output, y, row) == [c \in DOMAIN output |-> IF c[1] = y THEN row[c[2]] ELSE output[c]]

\* out_col[y] = acc for every y of column x
write_col(output, x, col) == [c \in DOMAIN output |-> IF c[2] = x THEN col[c[1]] ELSE output[c]]

\* The images blurred, each with its radius.
BlurJobs ==
    { [img |-> Patterned(2, 2, 0), radius |-> 1],
      [img |-> Patterned(1, 2, 1), radius |-> 2],
      [img |-> Patterned(2, 1, 3), radius |-> 1] }

\* blur entered with radius > 0: the kernel is built, the channels are split
\* off the image, and each channel's horizontal output starts as a clone of
\* its input.
BlurInit ==
    /\ files = [path \in {} |-> None]
    /\ vars = Env_new.vars
    /\ canvas = Env_new.canvas
    /\ pc = "eval"
    /\ saved = None
    /\ steps = 0
    /\ last = None
    /\ probe = NoProbe
    /\ \E job \in BlurJobs :
          pool = Some([img    |-> job.img,
                       radius |-> job.radius,
                       kernel |-> gaussian_kernel_1d(job.radius),
                       hout   |-> [i \in 1..4 |-> channel_of(job.img, i)],
                       hdone  |-> [i \in 1..4 |-> {}],
                       vout   |-> [i \in 1..4 |-> None],
                       vdone  |-> [i \in 1..4 |-> {}],
                       result |-> None])

\* One worker of channel i's horizontal pass fills output row y from row y
\* of the channel.
RowWorker(i, y) ==
    /\ pool[1].vout[i] = None
    /\ y \notin pool[1].hdone[i]
    /\ pool' = Some([pool[1] EXCEPT
                       !.hout[i] = write_row(@, y,
                           convolve_row(channel_of(pool[1].img, i), pool[1].img.width,
                                        pool[1].kernel, y)),
                       !.hdone[i] = @ \cup {y}])
    /\ UNCHANGED <<files, vars, canvas, pc, saved, steps, last, probe>>

\* The horizontal convolve_1d of channel i has returned.
HorizontalDone(i) == pool[1].hdone[i] = 0 .. pool[1].img.height - 1

\* A vertical pass that begins while rows are still being filled.
StartVertical_early(i) ==
    /\ pool[1].vout[i] = None
    /\ pool' = Some([pool[1] EXCEPT !.vout[i] = Some(pool[1].hout[i])])
    /\ UNCHANGED <<files, vars, canvas, pc, saved, steps, last, probe>>

\* Channel i's closure goes on to convolve_1d(&blurred_channel, .., Axis(0)):
\* the vertical output starts as a clone of the horizontal one.
StartVertical(i) ==
    /\ pool[1].vout[i] = None
    /\ HorizontalDone(i)
    /\ pool' = Some([pool[1] EXCEPT !.vout[i] = Some(pool[1].hout[i])])
    /\ UNCHANGED <<files, vars, canvas, pc, saved, steps, last, probe>>

\* One worker of channel i's vertical pass fills output column x from
\* column x of the horizontal output.
ColWorker(i, x) ==
    /\ pool[1].vout[i] # None
    /\ x \notin pool[1].vdone[i]
    /\ pool' = Some([pool[1] EXCEPT
                       !.vout[i] = Some(write_col(@[1], x,
                           convolve_col(pool[1].hout[i], pool[1].img.height,
                                        pool[1].kernel, x))),
                       !.vdone[i] = @ \cup {x}])
    /\ UNCHANGED <<files, vars, canvas, pc, saved, steps, last, probe>>

\* The vertical convolve_1d of channel i has returned.
VerticalDone(i) == pool[1].vout[i] # None /\ pool[1].vdone[i] = 0 .. pool[1].img.width - 1

\* collect() has the four blurred channels: they are cast back with as u8
\* into the image.
Collect ==
    /\ pool[1].result = None
    /\ \A i \in 1..4 : VerticalDone(i)
    /\ pool' = Some([pool[1] EXCEPT !.result =
                       Some([pool[1].img EXCEPT !.image.px =
                               [c \in DOMAIN @ |-> [i \in 1..4 |-> F32ToU8(pool[1].vout[i][1][c])]]])])
    /\ UNCHANGED <<files, vars, canvas, pc, saved, steps, last, probe>>

ConvolveRows == \E i \in 1..4 : \E y \in 0 .. pool[1].img.height - 1 : RowWorker(i, y)

NextPass == \E i \in 1..4 : StartVertical(i)

ConvolveCols == \E i \in 1..4 : \E x \in 0 .. pool[1].img.width - 1 : ColWorker(i, x)

BlurNext == ConvolveRows \/ NextPass \/ ConvolveCols \/ Collect

SpecBlur == BlurInit /\ [][BlurNext]_state

(***************************************************************************)
(* Properties.  They read the last top-level evaluation: its node, the     *)
(* environment it started from and its outcome.                            *)
(***************************************************************************)
Evaluated == last # None

LastNode == last[1].node

LastPre == last[1].pre

LastRes == last[1].res

\* e is an application of the operator called name.
IsApp(e, name) == e.k = "Cons" /\ Len(e.xs) >= 1 /\ e.xs[1].k = "Sym" /\ e.xs[1].sym = name

Operands(e) == Tail(e.xs)

Max(i, j) == IF i > j THEN i ELSE j

\* The nested application the steps fold to, innermost first: the last step
\* wraps the nesting of the steps before it.
RECURSIVE Nested(_, _)
Nested(first, fns) ==
    IF fns = <<>> THEN first
    ELSE LET f == fns[Len(fns)]
             r == Nested(first, SubSeq(fns, 1, Len(fns) - 1))
         IN  IF f.k = "Sym" THEN LCons(<<f, r>>)
             ELSE LCons(<<f.xs[1], r>> \o Tail(f.xs))

FoldableStep(f) == f.k = "Sym" \/ (f.k = "Cons" /\ Len(f.xs) > 0)

FivePlusOneTimesTwo == App("->", <<LInt(5), App("+", <<LInt(1)>>), App("*", <<LInt(2)>>)>>)

\* C1: a pipeline (-> first step1 ... stepN) whose steps are symbols or
\* non-empty lists has the outcome (value, error, environment and canvas) of
\* the nested application its steps fold to from first, left to right, the
\* accumulated node going in as the first operand; (-> 5 (+ 1) (* 2)) is 12
\* and (-> 5) is 5.
C1_PipelineIsNestedApplication ==
    (Evaluated /\ IsApp(LastNode, "->") /\ Len(Operands(LastNode)) >= 1
        /\ \A i \in 2 .. Len(Operands(LastNode)) : FoldableStep(Operands(LastNode)[i]))
    => /\ LastRes = eval_expr(LastPre, Nested(Operands(LastNode)[1], Tail(Operands(LastNode))))
       /\ LastNode = FivePlusOneTimesTwo => LastRes.val = Number(RatInt(12))
       /\ LastNode = App("->", <<LInt(5)>>) => LastRes.val = Number(RatInt(5))

\* A pipeline with a step that takes operands of its own has been evaluated
\* on a defined variable and has changed the environment.
C1_Witness ==
    /\ Evaluated
    /\ LastNode = App("->", <<LSym("x"), App("-", <<LInt(3)>>), App("def", <<LSym("x")>>)>>)
    /\ LastRes.st = "ok"
    /\ LastRes.env.vars # LastPre.vars

\* C2: img-move applied to an image and two numbers with the method omitted
\* has the outcome of the same application with the method 'pixels: the
\* operands are evaluated and the value is a translated Image.
C2_MoveDefaultsToPixels ==
    (Evaluated /\ IsApp(LastNode, "img-move") /\ Len(Operands(LastNode)) = 3
        /\ eval_expr(LastPre, App("img-move", Operands(LastNode) \o <<Q("pixels")>>)).st = "ok")
    => /\ LastRes.st = "ok"
       /\ LastRes.val.t = "Image"
       /\ LastRes = eval_expr(LastPre, App("img-move", Operands(LastNode) \o <<Q("pixels")>>))

\* The two images an img-mix application was given.
MixBottom == eval_expr(LastPre, Operands(LastNode)[1]).val.img

MixTop == eval_expr(eval_expr(LastPre, Operands(LastNode)[1]).env, Operands(LastNode)[2]).val.img

MixDone == Evaluated /\ IsApp(LastNode, "img-mix") /\ LastRes.st = "ok"

RenderOperand == eval_expr(LastPre, Operands(LastNode)[1])

\* C4: with no canvas defined, an img-render of an image fails with the
\* error "no canvas defined", the canvas slot stays empty and the run ends.
C4_RenderWithoutCanvasFails ==
    (Evaluated /\ IsApp(LastNode, "img-render") /\ Len(Operands(LastNode)) >= 1
        /\ LastPre.canvas = None
        /\ RenderOperand.st = "ok" /\ RenderOperand.val.t = "Image"
        /\ RenderOperand.env.canvas = None)
    => /\ LastRes.st = "err"
       /\ LastRes.err.msg = "no canvas defined"
       /\ LastRes.env.canvas = None
       /\ canvas = None
       /\ pc = "reported"

\* An img-render of a bound image has been evaluated with no canvas.
C4_Witness ==
    /\ Evaluated
    /\ LastNode = App("img-render", <<LSym("a")>>)
    /\ LastPre.canvas = None
    /\ "a" \in DOMAIN LastPre.vars
    /\ LastRes.err.msg = "no canvas defined"

\* The two numbers a canvas application was given.
CanvasWidth == eval_expr(LastPre, Operands(LastNode)[1])

CanvasHeight == eval_expr(CanvasWidth.env, Operands(LastNode)[2])

CanvasDone == Evaluated /\ IsApp(LastNode, "canvas") /\ LastRes.st = "ok"

\* The canvas slot holds a w x h image of transparent pixels.
CanvasIsBlank(w, h) ==
    /\ canvas # None
    /\ canvas[1].width = w
    /\ canvas[1].height = h
    /\ canvas[1].image.shape = <<h, w>>
    /\ DOMAIN canvas[1].image.px = Cells(h, w)
    /\ \A c \in DOMAIN canvas[1].image.px : canvas[1].image.px[c] = <<0, 0, 0, 0>>

\* C5 as stated: a successful canvas application returns Nil and leaves a
\* transparent canvas of size trunc(w) x trunc(h), binding no variable.
C5_CanvasIsTruncSized ==
    CanvasDone => /\ LastRes.val = Nil
                  /\ CanvasIsBlank(Trunc(CanvasWidth.val.num), Trunc(CanvasHeight.val.num))
                  /\ vars = CanvasHeight.env.vars

\* C5 amended: a successful canvas application returns Nil and leaves a
\* transparent canvas of size max(0, trunc(w)) x max(0, trunc(h)), whatever
\* the slot held before, binding no variable.
C5_CanvasIsSaturatedTruncSized ==
    CanvasDone => /\ LastRes.val = Nil
                  /\ CanvasIsBlank(Max(0, Trunc(CanvasWidth.val.num)),
                                   Max(0, Trunc(CanvasHeight.val.num)))
                  /\ vars = CanvasHeight.env.vars

\* A canvas application has replaced a canvas that had content rendered in.
C5_Witness ==
    /\ CanvasDone
    /\ LastPre.canvas # None
    /\ \E c \in DOMAIN LastPre.canvas[1].image.px : LastPre.canvas[1].image.px[c] # <<0, 0, 0, 0>>
    /\ canvas[1].width > 0 /\ canvas[1].height > 0

\* C6: the canvas is handed to the save only while the loop is still
\* running, so after every evaluated node succeeded, and only when the slot
\* holds a canvas; once a node has failed or panicked, or when no canvas was
\* defined, nothing is ever saved.
C6_SaveOnlyAfterSuccess ==
    /\ saved # None =>
          /\ pc \in {"saved", "save_failed"}
          /\ canvas # None
          /\ saved = canvas
          /\ Evaluated => LastRes.st = "ok"
    /\ (Evaluated /\ LastRes.st # "ok") => (saved = None /\ pc \in {"reported", "aborted"})
    /\ pc \in {"reported", "aborted", "no_canvas"} => saved = None
    /\ pc = "no_canvas" => canvas = None

\* A node has failed after a canvas was defined, and nothing was saved.
C6_Witness == pc = "reported" /\ canvas # None /\ saved = None

\* The pixel buffer of img has height rows and width columns.
BufferMatches(img) ==
    /\ img.image.shape = <<img.height, img.width>>
    /\ DOMAIN img.image.px = Cells(img.height, img.width)

\* C7: every image of a state (the canvas, the saved image, the images bound
\* to variables, the image an operator returned) has a buffer of exactly
\* height rows and width columns.
C7_BufferMatchesDimensions ==
    /\ canvas # None => BufferMatches(canvas[1])
    /\ saved # None => BufferMatches(saved[1])
    /\ \A n \in DOMAIN vars : vars[n].t = "Image" => BufferMatches(vars[n].img)
    /\ (Evaluated /\ LastRes.val.t = "Image") => BufferMatches(LastRes.val.img)

\* A resize has returned an image narrower than the one it was given.
C7_Witness ==
    /\ Evaluated
    /\ IsApp(LastNode, "img-resize")
    /\ LastRes.st = "ok"
    /\ LastRes.val.img.width < eval_expr(LastPre, Operands(LastNode)[1]).val.img.width
    /\ BufferMatches(LastRes.val.img)

\* C8: blend_pixel with a top pixel of alpha 0 returns the bottom pixel, in
\* every mode and in both copies of the function.
C8_TransparentTopKeepsBottom ==
    (probe.by # "none" /\ probe.top[4] = 0) => probe.out = probe.bottom

\* Every pixel of img has alpha a.
AllAlpha(img, a) == \A c \in DOMAIN img.image.px : img.image.px[c][4] = a

\* C9: for a and b of equal dimensions, (img-mix a b 'normal) is a when
\* every pixel of b has alpha 0 and b when every pixel of b has alpha 255.
C9_NormalMixIdentities ==
    (MixDone /\ Operands(LastNode)[3] = Q("normal")
        /\ MixBottom.width = MixTop.width /\ MixBottom.height = MixTop.height)
    => /\ AllAlpha(MixTop, 0) => LastRes.val.img = MixBottom
       /\ AllAlpha(MixTop, 255) => LastRes.val.img = MixTop

\* The image and the rounded offsets of an img-move by pixels.
MoveDone ==
    /\ Evaluated
    /\ IsApp(LastNode, "img-move")
    /\ Len(Operands(LastNode)) = 4
    /\ Operands(LastNode)[4] \in {Q("pixel"), Q("pixels"), Q("px")}
    /\ LastRes.st = "ok"

MoveSource == eval_expr(LastPre, Operands(LastNode)[1]).val.img

MoveDx == Round(eval_expr(LastPre, Operands(LastNode)[2]).val.num)

MoveDy == Round(eval_expr(LastPre, Operands(LastNode)[3]).val.num)

\* The moved image is (w + |dx|) x (h + |dy|), holds every source pixel
\* (x, y) at (x + dx, y + dy) when that is inside it, and is transparent in
\* every cell no source pixel went to.
MoveTranslates ==
    /\ LastRes.val.img.width = MoveSource.width + Abs(MoveDx)
    /\ LastRes.val.img.height = MoveSource.height + Abs(MoveDy)
    /\ BufferMatches(LastRes.val.img)
    /\ \A s \in Cells(MoveSource.height, MoveSource.width) :
          <<s[1] + MoveDy, s[2] + MoveDx>> \in DOMAIN LastRes.val.img.image.px
          => LastRes.val.img.image.px[<<s[1] + MoveDy, s[2] + MoveDx>>] = MoveSource.image.px[s]
    /\ \A c \in DOMAIN LastRes.val.img.image.px :
          <<c[1] - MoveDy, c[2] - MoveDx>> \notin Cells(MoveSource.height, MoveSource.width)
          => LastRes.val.img.image.px[c] = <<0, 0, 0, 0>>

TenByTenMove == App("img-move", <<LSym("m"), LInt(3), Neg(2), Q("pixels")>>)

ArithDone ==
    /\ Evaluated
    /\ LastNode.k = "Cons" /\ Len(LastNode.xs) = 3
    /\ LastNode.xs[1].k = "Sym" /\ LastNode.xs[1].sym \in ArithOps

ArithA == eval_expr(LastPre, Operands(LastNode)[1])

ArithB == eval_expr(ArithA.env, Operands(LastNode)[2])

ArithOnNumbers ==
    /\ ArithDone
    /\ ArithA.st = "ok" /\ ArithA.val.t = "Number"
    /\ ArithB.st = "ok" /\ ArithB.val.t = "Number"

\* C11: / and % applied to two Numbers the second of which is zero fail with
\* "division by zero" and yield no Number, whatever the first is; with a
\* non-zero second operand they yield a Number, and + - * on two Numbers
\* always yield a Number and never that error.
C11_DivisionByZero ==
    ArithOnNumbers =>
       IF LastNode.xs[1].sym \in {"/", "%"} /\ ArithB.val.num[1] = 0
       THEN /\ LastRes.st = "err"
            /\ LastRes.err.msg = "division by zero"
            /\ LastRes.val.t # "Number"
            /\ pc = "reported"
       ELSE /\ LastRes.st = "ok"
            /\ LastRes.val.t = "Number"
            /\ LastRes.err.msg # "division by zero"

\* A remainder by a zero that was computed, with a non-zero first operand,
\* has failed.
C11_Witness ==
    /\ ArithOnNumbers
    /\ LastNode.xs[1].sym = "%"
    /\ ArithA.val.num[1] # 0
    /\ ArithB.val.num[1] = 0
    /\ LastRes.err.msg = "division by zero"

\* The image and the radius of an eff-blur application, evaluated in order.
BlurImage == eval_expr(LastPre, Operands(LastNode)[1])

BlurRadius == eval_expr(BlurImage.env, Operands(LastNode)[2])

BlurApplied ==
    /\ Evaluated
    /\ IsApp(LastNode, "eff-blur") /\ Len(Operands(LastNode)) = 2
    /\ BlurImage.st = "ok" /\ BlurImage.val.t = "Image"
    /\ BlurRadius.st = "ok" /\ BlurRadius.val.t = "Number"

\* C12: eff-blur with a radius below 0 fails with "blur radius cannot be
\* negative" and yields no image; with radius 0 it returns an image equal
\* to its operand, pixels and dimensions.
C12_BlurRadiusEdges ==
    BlurApplied =>
       /\ BlurRadius.val.num[1] < 0 =>
             /\ LastRes.st = "err"
             /\ LastRes.err.msg = "blur radius cannot be negative"
             /\ LastRes.val.t # "Image"
       /\ BlurRadius.val.num[1] = 0 =>
             /\ LastRes.st = "ok"
             /\ LastRes.val = Image(BlurImage.val.img)

\* A blur of radius 0 has returned a non-empty image, and it is the operand.
C12_Witness ==
    /\ BlurApplied
    /\ BlurRadius.val.num[1] = 0
    /\ LastRes.st = "ok"
    /\ LastRes.val.img.width > 0 /\ LastRes.val.img.height > 0

\* The Value a literal node stands for.
LiteralValue(node) ==
    CASE node.k = "Nil"   -> Nil
      [] node.k = "Int"   -> Number(RatInt(node.int))
      [] node.k = "Float" -> Number(node.flt)
      [] node.k = "Str"   -> Str(node.str)

\* C13: a literal node (Nil, Int, Float, Str) evaluates to the Value it
\* stands for, without an error and with variables and canvas as they were,
\* and no evaluation ends in an abort.
C13_LiteralsAreValues ==
    Evaluated =>
       /\ LastRes.st # "panic"
       /\ pc # "aborted"
       /\ LastNode.k \in {"Nil", "Int", "Float", "Str"} =>
             LastRes = Ok(LastPre, LiteralValue(LastNode))

\* The symbol name occurs somewhere in node.
RECURSIVE Mentions(_, _)
Mentions(node, name) ==
    CASE node.k = "Sym"   -> node.sym = name
      [] node.k = "Quote" -> Mentions(node.x, name)
      [] node.k \in {"Cons", "Vec"} -> \E i \in 1..Len(node.xs) : Mentions(node.xs[i], name)
      [] OTHER -> FALSE

\* A def application with its two operands: the name's text and the
\* evaluation of the value.
DefDone == Evaluated /\ IsApp(LastNode, "def") /\ Len(Operands(LastNode)) >= 2

DefName == display(Operands(LastNode)[1])

DefValue == eval_expr(LastPre, Operands(LastNode)[2])

\* C14: when the value of (def x e) evaluates to v the application returns
\* Nil and x is bound to v, replacing any older binding, every other name
\* being as e left it, and the name is not evaluated; when e fails the
\* application fails as e did and binds nothing; a lookup of a bound name
\* yields the value bound last.
C14_DefBindsLiteralName ==
    /\ DefDone =>
          IF DefValue.st = "ok"
          THEN /\ LastRes.st = "ok"
               /\ LastRes.val = Nil
               /\ DOMAIN vars = DOMAIN DefValue.env.vars \cup {DefName}
               /\ vars[DefName] = DefValue.val
               /\ \A n \in DOMAIN vars \ {DefName} : vars[n] = DefValue.env.vars[n]
               /\ canvas = DefValue.env.canvas
          ELSE /\ LastRes = DefValue
               /\ vars = DefValue.env.vars
               /\ ~Mentions(Operands(LastNode)[2], "def") => vars = LastPre.vars
    /\ (Evaluated /\ LastNode.k = "Sym" /\ LastNode.sym \in DOMAIN LastPre.vars) =>
          LastRes = Ok(LastPre, LastPre.vars[LastNode.sym])

\* x was bound to 1, rebound by (def x (+ x 1)), and the lookup of x that
\* follows yields 2.
C14_Witness ==
    /\ Evaluated
    /\ steps = 3
    /\ LastNode = LSym("x")
    /\ LastRes.st = "ok"
    /\ LastRes.val = Number(RatInt(2))

\* C15: in every step of every run the canvas changes only when the node
\* evaluated holds a canvas or img-render application and the variables
\* change only when it holds a def application; so an image bound to a
\* variable is the same image after it was passed to img-resize, img-move,
\* img-mix, eff-blur or img-render.
C15_OnlyCanvasRenderAndDefMutate ==
    [][ /\ canvas' # canvas =>
              Mentions(LastNode', "canvas") \/ Mentions(LastNode', "img-render")
        /\ vars' # vars => Mentions(LastNode', "def")
      ]_state

\* The image bound to a variable was rendered: the canvas changed and the
\* variables, that image among them, did not.
C15_Witness ==
    /\ Evaluated
    /\ IsApp(LastNode, "img-render")
    /\ Len(Operands(LastNode)) = 1
    /\ Operands(LastNode)[1].k = "Sym"
    /\ LastRes.st = "ok"
    /\ canvas # LastPre.canvas
    /\ vars = LastPre.vars
    /\ vars[Operands(LastNode)[1].sym].t = "Image"

\* The channels whose horizontal, or vertical, output a step has changed.
WrittenH(old, new) == { i \in 1..4 : new.hout[i] # old.hout[i] }

WrittenV(old, new) == { i \in 1..4 : new.vout[i] # old.vout[i] }

\* A step of the pool, from old to new, keeps to one line of one channel:
\* it leaves the image and the kernel alone, changes the buffers of at most
\* one channel, changes a horizontal output only before that channel's
\* vertical pass has begun and in one row, and changes a vertical output
\* either from nothing to the finished horizontal output or in one column.
OneLineOfOneChannel(old, new) ==
    /\ new.img = old.img
    /\ new.kernel = old.kernel
    /\ Cardinality(WrittenH(old, new) \cup WrittenV(old, new)) <= 1
    /\ \A i \in WrittenH(old, new) :
          /\ old.vout[i] = None
          /\ \E y \in 0 .. old.img.height - 1 :
                \A c \in DOMAIN old.hout[i] : c[1] # y => new.hout[i][c] = old.hout[i][c]
    /\ \A i \in WrittenV(old, new) :
          IF old.vout[i] = None
          THEN new.vout[i] = Some(convolve_1d(channel_of(old.img, i), old.img.height,
                                              old.img.width, old.kernel, 1))
          ELSE \E x \in 0 .. old.img.width - 1 :
                  \A c \in DOMAIN old.vout[i][1] : c[2] # x => new.vout[i][1][c] = old.vout[i][1][c]

\* C16: every step of the blur's workers writes one row (horizontal pass)
\* or one column (vertical pass) of one channel's own output and leaves the
\* pass's input as it was; a channel's vertical pass begins only on its
\* finished horizontal output; and whatever the interleaving, the image
\* collected is the one the sequential blur computes.
C16_BlurWorkersDoNotInterfere ==
    [][ /\ OneLineOfOneChannel(pool[1], pool'[1])
        /\ pool'[1].result # None =>
              pool'[1].result = Some(blur(pool[1].img, pool[1].radius).img)
      ]_state

\* The 2 x 2 image has been collected from its sixteen workers, blurred.
C16_Witness ==
    /\ pool # None
    /\ pool[1].result # None
    /\ pool[1].img.width = 2 /\ pool[1].img.height = 2
    /\ pool[1].result[1] # pool[1].img
    /\ \A i \in 1..4 : pool[1].hdone[i] = {0, 1} /\ pool[1].vdone[i] = {0, 1}

\* A pipeline with at least one step, and the steps -> cannot rewrite.
PipelineDone == Evaluated /\ IsApp(LastNode, "->") /\ Len(Operands(LastNode)) >= 2

PipelineSteps == Tail(Operands(LastNode))

BadStep(f) == f.k # "Sym" /\ (f.k # "Cons" \/ Len(f.xs) = 0)

HasBadStep == \E i \in 1..Len(PipelineSteps) : BadStep(PipelineSteps[i])

FirstBadStep ==
    PipelineSteps[CHOOSE i \in 1..Len(PipelineSteps) :
                     /\ BadStep(PipelineSteps[i])
                     /\ \A j \in 1..(i - 1) : ~BadStep(PipelineSteps[j])]

\* C17: a pipeline one of whose steps is an empty list or is neither a
\* symbol nor a list fails, with "empty function in ->" when the first such
\* step is an empty list and with "... is not supported in ->" otherwise;
\* nothing of the pipeline is evaluated, so the variables and the canvas are
\* as they were before it.
C17_BadPipelineStepFailsUnevaluated ==
    (PipelineDone /\ HasBadStep) =>
       /\ LastRes.st = "err"
       /\ LastRes.err = IF FirstBadStep.k = "Cons"
                        THEN [msg |-> "empty function in ->", args |-> <<>>]
                        ELSE [msg |-> "{} is not supported in ->",
                              args |-> <<display(FirstBadStep)>>]
       /\ LastRes.env = LastPre
       /\ vars = LastPre.vars
       /\ canvas = LastPre.canvas
       /\ pc = "reported"

\* A pipeline whose first operand is a def, or a canvas, has failed on an
\* empty-list step.
C17_Witness ==
    /\ PipelineDone
    /\ Mentions(Operands(LastNode)[1], "def") \/ Mentions(Operands(LastNode)[1], "canvas")
    /\ eval_expr(LastPre, Operands(LastNode)[1]).env # LastPre
    /\ FirstBadStep = LCons(<<>>)
    /\ LastRes.err.msg = "empty function in ->"

\* The operands an application evaluates, in the order it evaluates them,
\* when it has all the operands its operator takes.
EvalOrder(node) ==
    LET ops == Operands(node)
        first(n) == IF Len(ops) >= n THEN SubSeq(ops, 1, n) ELSE <<>>
    IN  CASE IsApp(node, "canvas")     -> first(2)
          [] IsApp(node, "img-load")   -> first(1)
          [] IsApp(node, "img-render") -> first(1)
          [] IsApp(node, "img-resize") -> first(4)
          [] IsApp(node, "img-move")   -> first(4)
          [] IsApp(node, "img-mix")    -> first(3)
          [] IsApp(node, "eff-blur")   -> first(2)
          [] IsApp(node, "def")        -> IF Len(ops) >= 2 THEN <<ops[2]>> ELSE <<>>
          [] node.k = "Cons" /\ Len(node.xs) >= 1 /\ node.xs[1].k = "Sym"
             /\ node.xs[1].sym \in ArithOps -> first(2)
          [] OTHER -> <<>>

\* The operands nodes[k], nodes[k + 1], ... are evaluated one after the
\* other from env, each in the environment the one before it left, up to
\* the first that fails: its place (0 when none fails), its outcome, and the
\* environments the operands before it left (seen).
RECURSIVE FirstFailure(_, _, _, _)
FirstFailure(env, nodes, k, seen) ==
    IF k > Len(nodes) THEN [at |-> 0, res |-> Ok(env, Nil), before |-> seen]
    ELSE LET found(r) == IF r.st # "ok" THEN [at |-> k, res |-> r, before |-> seen]
                         ELSE FirstFailure(r.env, nodes, k + 1, seen \cup {r.env})
         IN  found(eval_expr(env, nodes[k]))

\* When an operand of the last node fails, the node fails as the first
\* failing operand did, in the environment that operand left, or it fails
\* on the type of an operand to its left in the environment that one left;
\* and the variables and the canvas are those of the failure.
FailsAtFirstFailingOperand ==
    Evaluated =>
       LET failure(f) ==
               f.at # 0 =>
                  /\ LastRes.st # "ok"
                  /\ \/ LastRes = f.res
                     \/ /\ LastRes.st = "err"
                        /\ LastRes.err.msg = "{} must be of type {}, got {}"
                        /\ LastRes.env \in f.before
                  /\ vars = LastRes.env.vars
                  /\ canvas = LastRes.env.canvas
       IN  failure(FirstFailure(LastPre, EvalOrder(LastNode), 1, {}))

\* C18: no step is taken once a top-level node has failed, so the variables
\* and the canvas stay as the failure left them; an application whose
\* operands are evaluated from left to right fails at the first failing one
\* with nothing to its right evaluated, keeping what the operands before
\* the failure changed.
C18_StopsAtFirstError ==
    /\ [][Evaluated => LastRes.st = "ok"]_state
    /\ []FailsAtFirstFailingOperand

\* (canvas (def x 1) y) has failed on y and x is bound, while
\* the run has stopped.
C18_Witness ==
    /\ Evaluated
    /\ IsApp(LastNode, "canvas")
    /\ FirstFailure(LastPre, EvalOrder(LastNode), 1, {}).at = 2
    /\ LastRes.st = "err"
    /\ LastRes.err.msg = "undefined symbol: {}"
    /\ vars # LastPre.vars
    /\ pc = "reported"

\* A successful img-render: the image rendered and the canvas it was
\* rendered on.
RenderDone ==
    /\ Evaluated
    /\ IsApp(LastNode, "img-render") /\ Len(Operands(LastNode)) >= 1
    /\ LastRes.st = "ok"

RenderedImage == RenderOperand.val.img

CanvasBefore == RenderOperand.env.canvas[1]

InOverlap(c) ==
    /\ c[2] < Min(CanvasBefore.width, RenderedImage.width)
    /\ c[1] < Min(CanvasBefore.height, RenderedImage.height)

\* C19: a successful img-render leaves the canvas's width, height and
\* buffer shape as they were and every cell outside the overlap of canvas
\* and image unchanged; each cell inside the overlap holds the Normal blend
\* of the image's pixel, as top, over the canvas's previous pixel, as bottom.
C19_RenderBlendsOnlyTheOverlap ==
    RenderDone =>
       /\ canvas # None
       /\ canvas[1].width = CanvasBefore.width
       /\ canvas[1].height = CanvasBefore.height
       /\ canvas[1].image.shape = CanvasBefore.image.shape
       /\ DOMAIN canvas[1].image.px = DOMAIN CanvasBefore.image.px
       /\ \A c \in DOMAIN CanvasBefore.image.px :
             canvas[1].image.px[c] =
                IF InOverlap(c)
                THEN blend_pixel("Normal", RenderedImage.image.px[c], CanvasBefore.image.px[c])
                ELSE CanvasBefore.image.px[c]
       /\ vars = RenderOperand.env.vars

\* An image narrower than the canvas was rendered on a canvas that already
\* held pixels: a cell outside the overlap holds a pixel that is not blank
\* and a cell inside it has changed.
C19_Witness ==
    /\ RenderDone
    /\ RenderedImage.width < CanvasBefore.width
    /\ \E c \in DOMAIN CanvasBefore.image.px :
          ~InOverlap(c) /\ CanvasBefore.image.px[c] # Transparent
    /\ \E c \in DOMAIN CanvasBefore.image.px :
          InOverlap(c) /\ canvas[1].image.px[c] # CanvasBefore.image.px[c]
                       /\ CanvasBefore.image.px[c] # Transparent

\* For each built-in operator, the errors of its required operands in the
\* order it asks for them: the k-th is raised when fewer than k operands
\* are supplied.
MissingArgument(name) ==
    CASE name = "canvas"     -> <<"missing width for canvas", "missing height for canvas">>
      [] name = "img-load"   -> <<"missing path for load">>
      [] name = "img-render" -> <<"missing image for render">>
      [] name = "img-resize" -> <<"missing image for resize", "missing resize method for resize",
                                  "missing width for resize", "missing height for resize">>
      [] name = "img-move"   -> <<"missing image for move", "missing x offset for move",
                                  "missing y offset for move">>
      [] name = "img-mix"    -> <<"missing first image for mix", "missing second image for mix",
                                  "missing blend mode for mix">>
      [] name = "eff-blur"   -> <<"missing image for blur", "missing radius for blur">>
      [] name = "def"        -> <<"missing variable name for def", "missing value for variable">>
      [] name = "->"         -> <<"missing first argument for ->">>
      [] name \in ArithOps   -> <<"missing first argument for arithmetic operation",
                                  "missing second argument for arithmetic operation">>
      [] OTHER               -> <<>>

\* The last node applies a built-in operator to fewer operands than it
\* requires.
TooFewOperands ==
    /\ Evaluated
    /\ LastNode.k = "Cons" /\ Len(LastNode.xs) >= 1 /\ LastNode.xs[1].k = "Sym"
    /\ Len(Operands(LastNode)) < Len(MissingArgument(LastNode.xs[1].sym))

\* C20: a built-in operator applied to fewer operands than it requires
\* fails with the missing-argument error of the first operand that is not
\* there, and none of the operands that are there is evaluated: the
\* variables and the canvas are as before and the run ends with that error.
C20_MissingArgumentBeforeEvaluation ==
    TooFewOperands =>
       /\ LastRes.st = "err"
       /\ LastRes.err.msg = MissingArgument(LastNode.xs[1].sym)[Len(Operands(LastNode)) + 1]
       /\ LastRes.err.args = <<>>
       /\ LastRes.env = LastPre
       /\ vars = LastPre.vars
       /\ canvas = LastPre.canvas
       /\ pc = "reported"

\* An operand that is there would have bound a variable or made a canvas,
\* and it was not evaluated.
C20_Witness ==
    /\ TooFewOperands
    /\ Len(Operands(LastNode)) >= 1
    /\ \E i \in 1..Len(Operands(LastNode)) :
          eval_expr(LastPre, Operands(LastNode)[i]).env # LastPre
    /\ LastRes.st = "err"
    /\ vars = LastPre.vars /\ canvas = LastPre.canvas

====
